---- MODULE Spec2Model ----
(***************************************************************************)
(* Model of the NYC taxi curation tools: scripts/clean_curate.py (the      *)
(* curation pipeline) and scripts/aggregate_metrics.py (the distance       *)
(* buckets of the downstream aggregator).                                  *)
(*                                                                         *)
(* Units.  The floating-point values of the program are kept as scaled     *)
(* integers: coordinates in tenths of a degree, distances in hundredths    *)
(* of a mile, fares in whole dollars, timestamps in minutes since          *)
(* 2024-01-01 00:00 (a Monday), the reduction percentage in hundredths of  *)
(* a percent (the two decimals the summary prints).  A missing value (NaN, *)
(* NaT) is the number NaN, and every comparison with it is false, as in    *)
(* pandas.                                                                 *)
(*                                                                         *)
(* A dataframe is a record [columns, rows]: columns is the sequence of     *)
(* column names, rows a sequence of records with one field per recognised  *)
(* column; the field of a column that is not in columns is never read.     *)
(***************************************************************************)
EXTENDS Integers, Sequences, FiniteSets, TLC

VARIABLES pc, input, df, thresholds, dirs, files, original_rows, curated_rows,
          reduction_pct, hourly, monthly, fare_stats, summary, outputs, run, first

vars == <<pc, input, df, thresholds, dirs, files, original_rows, curated_rows,
          reduction_pct, hourly, monthly, fare_stats, summary, outputs, run, first>>

(* ------------------------------ bounds --------------------------------- *)
\* most rows of an input file of the curation pipeline
MaxRows == 2
\* most rows of a dataframe handed to one filter on its own
MaxStageRows == 2
\* most columns of a schema handed to normalize_columns on its own
MaxCols == 3

(* --------------------------- program constants ------------------------- *)
DEFAULT_MAX_FARE == 1000
DEFAULT_MIN_DISTANCE == 5
DEFAULT_MAX_DISTANCE == 10000
lat_min == 404
lat_max == 411
lon_min == -745
lon_max == -729
MAX_DURATION_MIN == 720

\* the missing value: pandas NaN / NaT
NaN == -999999

TIME_COLUMNS == <<"tpep_pickup_datetime", "tpep_dropoff_datetime">>

(* ------------------------------ helpers -------------------------------- *)
Range(s) == {s[i] : i \in 1..Len(s)}

\* `col in df.columns`
HasCol(d, col) == col \in Range(d.columns)

\* comparisons of pandas Series: false on a missing value
Gt(x, y) == x # NaN /\ y # NaN /\ x > y
Ge(x, y) == x # NaN /\ y # NaN /\ x >= y
Le(x, y) == x # NaN /\ y # NaN /\ x <= y

\* between with both ends excluded
between_exclusive(x, left, right) == Gt(x, left) /\ Gt(right, x)

\* Series.between(left, right), inclusive="both"
between(x, left, right) == Ge(x, left) /\ Le(x, right)

\* the distinct numbers of S in ascending order (groupby sorts its keys)
RECURSIVE SortedSeq(_)
SortedSeq(S) ==
    IF S = {} THEN <<>>
    ELSE LET m == CHOOSE x \in S : \A y \in S : x <= y
         IN <<m>> \o SortedSeq(S \ {m})

RECURSIVE SumSeq(_)
SumSeq(s) == IF s = <<>> THEN 0 ELSE Head(s) + SumSeq(Tail(s))

\* df[name] = ...: an existing column keeps its place, a new one is appended
AddCol(cols, name) == IF name \in Range(cols) THEN cols ELSE Append(cols, name)

(* ------------------- timestamps: text <-> datetime64 ------------------- *)
\* The timestamp texts of the model and the minute each one denotes; a text
\* without a time of day denotes midnight.
TimeTable ==
    << <<"2024-01-15 08:30:00", 20670>>,
       <<"2024-01-15 09:00:00", 20700>>,
       <<"2024-01-15 20:30:00", 21390>>,
       <<"2024-01-15 20:31:00", 21391>>,
       <<"2024-01-31 23:50:00", 44630>>,
       <<"2024-02-01 00:10:00", 44650>>,
       <<"2024-01-15", 20160>>,
       <<"2024-01-31", 43200>>,
       <<"2024-02-01", 44640>> >>

\* pd.to_datetime(text, errors="coerce"): an unparseable or empty cell is NaT
to_datetime(text) ==
    IF \E i \in 1..Len(TimeTable) : TimeTable[i][1] = text
    THEN TimeTable[CHOOSE i \in 1..Len(TimeTable) : TimeTable[i][1] = text][2]
    ELSE NaN

\* format_datetime writing the date without the time of day
format_datetime_date_only(t) ==
    IF \E i \in 1..Len(TimeTable) : TimeTable[i][2] = (t \div 1440) * 1440
    THEN TimeTable[CHOOSE i \in 1..Len(TimeTable) :
                       TimeTable[i][2] = (t \div 1440) * 1440][1]
    ELSE ""

\* DataFrame.to_csv of a datetime64 cell: NaT is written as the empty cell
format_datetime(t) ==
    IF \E i \in 1..Len(TimeTable) : TimeTable[i][2] = t
    THEN TimeTable[CHOOSE i \in 1..Len(TimeTable) : TimeTable[i][2] = t][1]
    ELSE ""

\* Series.dt.hour
HourOf(t) == IF t = NaN THEN NaN ELSE (t % 1440) \div 60
\* Series.dt.date, as the day number since 2024-01-01
DateOf(t) == IF t = NaN THEN NaN ELSE t \div 1440
\* Series.dt.to_period("M").astype(str): NaT becomes the string "NaT"
MonthOf(t) ==
    IF t = NaN THEN "NaT"
    ELSE IF t \div 1440 < 31 THEN "2024-01"
    ELSE IF t \div 1440 < 60 THEN "2024-02"
    ELSE "2024-03"
\* the month labels in the order groupby sorts them
MonthLabels == <<"2024-01", "2024-02", "2024-03", "NaT">>
\* Series.dt.day_name(): NaT gives a missing value
DayNames == <<"Monday", "Tuesday", "Wednesday", "Thursday", "Friday", "Saturday", "Sunday">>
WeekdayOf(t) == IF t = NaN THEN "NaN" ELSE DayNames[((t \div 1440) % 7) + 1]

(* ------------------------- clean_curate.py ----------------------------- *)
\* df.loc[:, ~df.columns.duplicated()]: the first occurrence of each name stays
RECURSIVE DropDuplicated(_, _)
DropDuplicated(cols, seen) ==
    IF cols = <<>> THEN <<>>
    ELSE IF Head(cols) \in seen THEN DropDuplicated(Tail(cols), seen)
         ELSE <<Head(cols)>> \o DropDuplicated(Tail(cols), seen \cup {Head(cols)})

\* df.rename(columns={"RatecodeID": "RateCodeID"})
rename(cols) == [i \in 1..Len(cols) |-> IF cols[i] = "RatecodeID" THEN "RateCodeID" ELSE cols[i]]

normalize_columns(d) == [d EXCEPT !.columns = rename(DropDuplicated(d.columns, {}))]

parse_datetimes(d) ==
    LET parse(r) ==
            [r EXCEPT
               !.tpep_pickup_datetime =
                   IF HasCol(d, TIME_COLUMNS[1]) THEN to_datetime(@) ELSE @,
               !.tpep_dropoff_datetime =
                   IF HasCol(d, TIME_COLUMNS[2]) THEN to_datetime(@) ELSE @]
    IN [d EXCEPT !.rows = [i \in 1..Len(d.rows) |-> parse(d.rows[i])]]

\* one pass of the loop of filter_bounds, for one prefix
InPickupBounds(r) ==
    /\ between(r.pickup_latitude, lat_min, lat_max)
    /\ between(r.pickup_longitude, lon_min, lon_max)
InDropoffBounds(r) ==
    /\ between(r.dropoff_latitude, lat_min, lat_max)
    /\ between(r.dropoff_longitude, lon_min, lon_max)

filter_bounds(d) ==
    LET d1 == IF HasCol(d, "pickup_latitude") /\ HasCol(d, "pickup_longitude")
              THEN [d EXCEPT !.rows = SelectSeq(@, InPickupBounds)]
              ELSE d
    IN IF HasCol(d1, "dropoff_latitude") /\ HasCol(d1, "dropoff_longitude")
       THEN [d1 EXCEPT !.rows = SelectSeq(@, InDropoffBounds)]
       ELSE d1

\* filter_numeric keeping a fare of zero (>= 0 for > 0)
filter_numeric_zero_fare(d, max_fare, min_distance, max_distance) ==
    LET FareOk(r) == Ge(r.total_amount, 0) /\ Le(r.total_amount, max_fare)
        DistOk(r) == Ge(r.trip_distance, min_distance) /\ Le(r.trip_distance, max_distance)
        d1 == IF HasCol(d, "total_amount")
              THEN [d EXCEPT !.rows = SelectSeq(@, FareOk)]
              ELSE d
    IN IF HasCol(d1, "trip_distance")
       THEN [d1 EXCEPT !.rows = SelectSeq(@, DistOk)]
       ELSE d1

filter_numeric(d, max_fare, min_distance, max_distance) ==
    LET FareOk(r) == Gt(r.total_amount, 0) /\ Le(r.total_amount, max_fare)
        DistOk(r) == Ge(r.trip_distance, min_distance) /\ Le(r.trip_distance, max_distance)
        d1 == IF HasCol(d, "total_amount")
              THEN [d EXCEPT !.rows = SelectSeq(@, FareOk)]
              ELSE d
    IN IF HasCol(d1, "trip_distance")
       THEN [d1 EXCEPT !.rows = SelectSeq(@, DistOk)]
       ELSE d1

\* (dropoff - pickup).dt.total_seconds() / 60.0: missing when either is NaT
Duration(r) ==
    IF r.tpep_pickup_datetime = NaN \/ r.tpep_dropoff_datetime = NaN THEN NaN
    ELSE r.tpep_dropoff_datetime - r.tpep_pickup_datetime

DurationOk(r) == Ge(r.trip_duration_min, 0) /\ Le(r.trip_duration_min, MAX_DURATION_MIN)

derive_features(d) ==
    LET temporal(r) ==
            [r EXCEPT !.pickup_hour = HourOf(r.tpep_pickup_datetime),
                      !.pickup_date = DateOf(r.tpep_pickup_datetime),
                      !.pickup_month = MonthOf(r.tpep_pickup_datetime),
                      !.pickup_weekday = WeekdayOf(r.tpep_pickup_datetime)]
        d1 == IF HasCol(d, "tpep_pickup_datetime")
              THEN [columns |-> AddCol(AddCol(AddCol(AddCol(d.columns,
                                    "pickup_hour"), "pickup_date"), "pickup_month"),
                                    "pickup_weekday"),
                    rows |-> [i \in 1..Len(d.rows) |-> temporal(d.rows[i])]]
              ELSE d
        timed(r) == [r EXCEPT !.trip_duration_min = Duration(r)]
    IN IF HasCol(d1, "tpep_pickup_datetime") /\ HasCol(d1, "tpep_dropoff_datetime")
       THEN [columns |-> AddCol(d1.columns, "trip_duration_min"),
             rows |-> SelectSeq([i \in 1..Len(d1.rows) |-> timed(d1.rows[i])], DurationOk)]
       ELSE d1

\* DataFrame.describe() of the total_amount column: the row labels and, of the
\* values, the count, the minimum and the maximum (no claim reads the others).
\* A column read from a file without data rows has dtype object, which
\* describe() summarises as count/unique/top/freq.
describe(values, numeric_dtype) ==
    [index |-> IF numeric_dtype
               THEN <<"count", "mean", "std", "min", "25%", "50%", "75%", "max">>
               ELSE <<"count", "unique", "top", "freq">>,
     count |-> Cardinality({i \in 1..Len(values) : values[i] # NaN}),
     min |-> IF \E i \in 1..Len(values) : values[i] # NaN
             THEN CHOOSE x \in Range(values) \ {NaN} :
                      \A y \in Range(values) \ {NaN} : x <= y
             ELSE NaN,
     max |-> IF \E i \in 1..Len(values) : values[i] # NaN
             THEN CHOOSE x \in Range(values) \ {NaN} :
                      \A y \in Range(values) \ {NaN} : x >= y
             ELSE NaN]

\* pd.DataFrame(): no rows, no columns
EmptyFrame == <<>>
EmptyStats == [index |-> <<>>, count |-> 0, min |-> NaN, max |-> NaN]

\* df.groupby("pickup_hour").size().reset_index(name="total_trips")
HourlyTable(d) ==
    LET keys == SortedSeq({d.rows[i].pickup_hour : i \in 1..Len(d.rows)} \ {NaN})
    IN [k \in 1..Len(keys) |->
           [pickup_hour |-> keys[k],
            total_trips |-> Cardinality({i \in 1..Len(d.rows) :
                                            d.rows[i].pickup_hour = keys[k]})]]

\* df.groupby("pickup_month")["total_amount"].sum().reset_index(name="total_amount")
MonthlyTable(d) ==
    LET present(m) == \E i \in 1..Len(d.rows) : d.rows[i].pickup_month = m
        keys == SelectSeq(MonthLabels, present)
        amount(r) == IF r.total_amount = NaN THEN 0 ELSE r.total_amount
    IN [k \in 1..Len(keys) |->
           [pickup_month |-> keys[k],
            total_amount |-> SumSeq([i \in 1..Len(d.rows) |->
                                IF d.rows[i].pickup_month = keys[k]
                                THEN amount(d.rows[i]) ELSE 0])]]

compute_metrics(d, numeric_dtype) ==
    [hourly |-> IF HasCol(d, "pickup_hour") THEN HourlyTable(d) ELSE EmptyFrame,
     monthly |-> IF HasCol(d, "pickup_month") /\ HasCol(d, "total_amount")
                 THEN MonthlyTable(d) ELSE EmptyFrame,
     fare_stats |-> IF HasCol(d, "total_amount")
                    THEN describe([i \in 1..Len(d.rows) |-> d.rows[i].total_amount],
                                  numeric_dtype)
                    ELSE EmptyStats]

\* f"{x:.2f}" of the quotient num/den, in hundredths: round to nearest, ties to even
Round2(num, den) ==
    LET q == (100 * num) \div den
        r == (100 * num) % den
    IN IF 2 * r > den THEN q + 1
       ELSE IF 2 * r = den THEN q + (q % 2)
       ELSE q

Max(a, b) == IF a >= b THEN a ELSE b

\* ReductionPct reporting no reduction for an input without rows
ReductionPctZero(original, curated) ==
    IF original = 0 THEN 0 ELSE Round2(100 * (original - curated), original)

\* 100 * (1 - curated_rows / max(original_rows, 1)), as the summary prints it
ReductionPct(original, curated) ==
    Round2(100 * (Max(original, 1) - curated), Max(original, 1))

\* DataFrame.to_csv: a datetime64 cell is written as text, NaT as the empty cell
to_csv(d) ==
    LET cell(r) ==
            [r EXCEPT
               !.tpep_pickup_datetime =
                   IF HasCol(d, "tpep_pickup_datetime") THEN format_datetime(@) ELSE @,
               !.tpep_dropoff_datetime =
                   IF HasCol(d, "tpep_dropoff_datetime") THEN format_datetime(@) ELSE @]
    IN [columns |-> d.columns, rows |-> [i \in 1..Len(d.rows) |-> cell(d.rows[i])]]

\* the paths the tool is run with in its usage line
path_out == "data/nyc_taxi_curated.csv"
out_dir == "data"
artifacts_dir == "docs/"

NoFrame == [columns |-> <<>>, rows |-> <<>>]
NoSummary == [original |-> 0, curated |-> 0, reduction |-> 0,
              peak_line |-> FALSE, peak_hour |-> NaN, peak_trips |-> NaN]
NoFiles == [f \in {} |-> NoFrame]

(* ------------------------ curate(), step by step ----------------------- *)
\* os.makedirs(os.path.dirname(path_out)); os.makedirs(artifacts_dir)
MakeDirs ==
    /\ pc = "makedirs"
    /\ dirs' = dirs \cup {out_dir, artifacts_dir}
    /\ pc' = "load_dataset"
    /\ UNCHANGED <<input, df, thresholds, files, original_rows, curated_rows,
                   reduction_pct, hourly, monthly, fare_stats, summary, outputs,
                   run, first>>

\* load_dataset: FileNotFoundError when the path does not exist
LoadMissing ==
    /\ pc = "load_dataset"
    /\ ~input.exists
    /\ pc' = "FileNotFoundError"
    /\ UNCHANGED <<input, df, thresholds, dirs, files, original_rows, curated_rows,
                   reduction_pct, hourly, monthly, fare_stats, summary, outputs,
                   run, first>>

\* df = load_dataset(path_in); original_rows = len(df)
LoadDataset ==
    /\ pc = "load_dataset"
    /\ input.exists
    /\ df' = [columns |-> input.columns, rows |-> input.rows]
    /\ original_rows' = Len(input.rows)
    /\ pc' = "normalize_columns"
    /\ UNCHANGED <<input, thresholds, dirs, files, curated_rows, reduction_pct,
                   hourly, monthly, fare_stats, summary, outputs, run, first>>

\* a stage df = stage(df) of curate
Stage(from, result, to) ==
    /\ pc = from
    /\ df' = result
    /\ pc' = to
    /\ UNCHANGED <<input, thresholds, dirs, files, original_rows, curated_rows,
                   reduction_pct, hourly, monthly, fare_stats, summary, outputs,
                   run, first>>

NormalizeColumns == Stage("normalize_columns", normalize_columns(df), "parse_datetimes")
ParseDatetimes == Stage("parse_datetimes", parse_datetimes(df), "filter_bounds")
FilterBounds == Stage("filter_bounds", filter_bounds(df), "filter_numeric")
FilterNumeric ==
    Stage("filter_numeric",
          filter_numeric(df, thresholds.max_fare, thresholds.min_distance,
                         thresholds.max_distance),
          "derive_features")
DeriveFeatures == Stage("derive_features", derive_features(df), "reduction")

\* curated_rows = len(df); reduction_pct = ...
Reduction ==
    /\ pc = "reduction"
    /\ curated_rows' = Len(df.rows)
    /\ reduction_pct' = ReductionPct(original_rows, Len(df.rows))
    /\ pc' = "compute_metrics"
    /\ UNCHANGED <<input, df, thresholds, dirs, files, original_rows, hourly,
                   monthly, fare_stats, summary, outputs, run, first>>

ComputeMetrics ==
    /\ pc = "compute_metrics"
    /\ LET m == compute_metrics(df, original_rows > 0)
       IN /\ hourly' = m.hourly
          /\ monthly' = m.monthly
          /\ fare_stats' = m.fare_stats
    /\ pc' = "to_csv"
    /\ UNCHANGED <<input, df, thresholds, dirs, files, original_rows, curated_rows,
                   reduction_pct, summary, outputs, run, first>>

\* the four to_csv calls of curate
WriteTables ==
    /\ pc = "to_csv"
    /\ files' = [f \in DOMAIN files \cup {path_out, "hourly_trips.csv",
                                           "monthly_revenue.csv", "fare_stats.csv"} |->
                    IF f = path_out THEN to_csv(df)
                    ELSE IF f = "hourly_trips.csv" THEN hourly
                    ELSE IF f = "monthly_revenue.csv" THEN monthly
                    ELSE IF f = "fare_stats.csv" THEN fare_stats
                    ELSE files[f]]
    /\ pc' = "summary"
    /\ UNCHANGED <<input, df, thresholds, dirs, original_rows, curated_rows,
                   reduction_pct, hourly, monthly, fare_stats, summary, outputs,
                   run, first>>

\* hourly.sort_values("total_trips", ascending=False).head(1): the default sort
\* kind is quicksort, which is not stable, so among the hours that share the
\* largest count the row that comes first is any of them.
PeakRows(table) ==
    {i \in 1..Len(table) : \A j \in 1..Len(table) :
                              table[i].total_trips >= table[j].total_trips}

\* the summary file: three lines, and the peak line when hourly is not empty
WriteSummary ==
    /\ pc = "summary"
    /\ \/ /\ hourly = <<>>
          /\ summary' = [original |-> original_rows, curated |-> curated_rows,
                         reduction |-> reduction_pct, peak_line |-> FALSE,
                         peak_hour |-> NaN, peak_trips |-> NaN]
       \/ /\ hourly # <<>>
          /\ \E i \in PeakRows(hourly) :
                summary' = [original |-> original_rows, curated |-> curated_rows,
                            reduction |-> reduction_pct, peak_line |-> TRUE,
                            peak_hour |-> hourly[i].pickup_hour,
                            peak_trips |-> hourly[i].total_trips]
    /\ files' = [f \in DOMAIN files \cup {"curation_summary.txt"} |->
                    IF f = "curation_summary.txt" THEN summary' ELSE files[f]]
    /\ pc' = "done"
    /\ UNCHANGED <<input, df, thresholds, dirs, original_rows, curated_rows,
                   reduction_pct, hourly, monthly, fare_stats, outputs, run, first>>

\* the tool run once more, on the curated file of the first run
Rerun ==
    /\ pc = "done"
    /\ run = 1
    /\ run' = 2
    /\ first' = df
    /\ input' = [exists |-> TRUE, columns |-> files[path_out].columns,
                 rows |-> files[path_out].rows]
    /\ pc' = "makedirs"
    /\ UNCHANGED <<df, thresholds, dirs, files, original_rows, curated_rows,
                   reduction_pct, hourly, monthly, fare_stats, summary, outputs>>

(* ------------------------ aggregate_metrics.py ------------------------- *)
\* Series.dt.day
DayOfMonth(t) ==
    IF t = NaN THEN NaN
    ELSE IF t \div 1440 < 31 THEN (t \div 1440) + 1
    ELSE IF t \div 1440 < 60 THEN (t \div 1440) - 30
    ELSE (t \div 1440) - 59

\* pd.read_csv(path, parse_dates=[the time columns of the header])
load_df(csv) ==
    LET cell(r) ==
            [r EXCEPT
               !.tpep_pickup_datetime =
                   IF HasCol(csv, "tpep_pickup_datetime") THEN to_datetime(@) ELSE @,
               !.tpep_dropoff_datetime =
                   IF HasCol(csv, "tpep_dropoff_datetime") THEN to_datetime(@) ELSE @]
    IN [columns |-> csv.columns, rows |-> [i \in 1..Len(csv.rows) |-> cell(csv.rows[i])]]

add_temporal(d) ==
    LET temporal(r) ==
            [r EXCEPT !.pickup_hour = HourOf(r.tpep_pickup_datetime),
                      !.pickup_day = DayOfMonth(r.tpep_pickup_datetime),
                      !.pickup_month = MonthOf(r.tpep_pickup_datetime),
                      !.pickup_weekday = WeekdayOf(r.tpep_pickup_datetime)]
    IN IF HasCol(d, "tpep_pickup_datetime")
       THEN [columns |-> AddCol(AddCol(AddCol(AddCol(d.columns,
                             "pickup_hour"), "pickup_day"), "pickup_month"),
                             "pickup_weekday"),
             rows |-> [i \in 1..Len(d.rows) |-> temporal(d.rows[i])]]
       ELSE d

\* bins and labels of compute, the bins in hundredths of a mile
bins == <<0, 100, 200, 500, 1000, 2000, 5000, 10000>>
labels == <<"0-1", "1-2", "2-5", "5-10", "10-20", "20-50", "50-100">>

\* pd.cut(x, bins=bins, labels=labels, right=False): the label of the interval
\* [bins[k], bins[k+1]) that holds x, and a missing value when none does
cut(x) ==
    IF x # NaN /\ \E k \in 1..Len(labels) : bins[k] <= x /\ x < bins[k + 1]
    THEN labels[CHOOSE k \in 1..Len(labels) : bins[k] <= x /\ x < bins[k + 1]]
    ELSE "NaN"

\* df.groupby("distance_bucket").agg(total_trips=("distance_bucket", "size"), ...):
\* one row per label, rows without a bucket in none (the fare columns of the
\* aggregates are left out)
DistanceBucketTable(d) ==
    [k \in 1..Len(labels) |->
        [distance_bucket |-> labels[k],
         total_trips |-> Cardinality({i \in 1..Len(d.rows) :
                                         cut(d.rows[i].trip_distance) = labels[k]})]]

\* the trips of each group of a temporal aggregate; groupby leaves out the
\* rows whose key is missing
TripsBy(d, column, missing) ==
    [key \in {d.rows[i][column] : i \in 1..Len(d.rows)} \ {missing} |->
        Cardinality({i \in 1..Len(d.rows) : d.rows[i][column] = key})]

\* compute: the aggregates the columns of df allow
compute(d) ==
    LET names == (IF HasCol(d, "pickup_hour") THEN {"agg_hourly_fare"} ELSE {})
                 \cup (IF HasCol(d, "pickup_month") THEN {"agg_monthly_fare"} ELSE {})
                 \cup (IF HasCol(d, "pickup_weekday") THEN {"agg_weekday_fare"} ELSE {})
                 \cup (IF HasCol(d, "trip_distance") /\ HasCol(d, "total_amount")
                       THEN {"agg_distance_bucket"} ELSE {})
    IN [n \in names |->
           IF n = "agg_hourly_fare" THEN TripsBy(d, "pickup_hour", NaN)
           ELSE IF n = "agg_monthly_fare" THEN TripsBy(d, "pickup_month", "NaN")
           ELSE IF n = "agg_weekday_fare" THEN TripsBy(d, "pickup_weekday", "NaN")
           ELSE DistanceBucketTable(d)]

\* main() of aggregate_metrics.py on the curated file: load_df, add_temporal,
\* compute, write_outputs
Aggregate ==
    /\ pc = "done"
    /\ HasCol(files[path_out], "tpep_pickup_datetime")
       => HasCol(files[path_out], "total_amount")
    /\ outputs' = compute(add_temporal(load_df(files[path_out])))
    /\ dirs' = dirs \cup {artifacts_dir}
    /\ files' = [f \in DOMAIN files \cup DOMAIN outputs' |->
                    IF f \in DOMAIN outputs' THEN outputs'[f] ELSE files[f]]
    /\ pc' = "aggregated"
    /\ UNCHANGED <<input, df, thresholds, original_rows, curated_rows, reduction_pct,
                   hourly, monthly, fare_stats, summary, run, first>>

\* the temporal aggregates read total_amount: without it compute raises KeyError
AggregateKeyError ==
    /\ pc = "done"
    /\ HasCol(files[path_out], "tpep_pickup_datetime")
    /\ ~HasCol(files[path_out], "total_amount")
    /\ pc' = "KeyError"
    /\ UNCHANGED <<input, df, thresholds, dirs, files, original_rows, curated_rows,
                   reduction_pct, hourly, monthly, fare_stats, summary, outputs,
                   run, first>>

(* --------------------------- the tool's inputs ------------------------- *)
\* a row whose every cell is missing
BlankRow ==
    [pickup_latitude |-> NaN, pickup_longitude |-> NaN,
     dropoff_latitude |-> NaN, dropoff_longitude |-> NaN,
     total_amount |-> NaN, trip_distance |-> NaN,
     tpep_pickup_datetime |-> "", tpep_dropoff_datetime |-> "",
     pickup_hour |-> NaN, pickup_date |-> NaN, pickup_month |-> "",
     pickup_weekday |-> "", trip_duration_min |-> NaN, pickup_day |-> NaN]

\* the columns of an input file: the legacy rate-code column, and each of the
\* coordinates, the two amounts, the pickup time and the dropoff time or not
CurateColumns(coords, amounts, pickup, dropoff) ==
    <<"RatecodeID">>
    \o (IF coords THEN <<"pickup_latitude", "pickup_longitude",
                         "dropoff_latitude", "dropoff_longitude">> ELSE <<>>)
    \o (IF amounts THEN <<"total_amount", "trip_distance">> ELSE <<>>)
    \o (IF pickup THEN <<"tpep_pickup_datetime">> ELSE <<>>)
    \o (IF dropoff THEN <<"tpep_dropoff_datetime">> ELSE <<>>)

\* the rows such a file may hold: the cells of a column it has not are missing
CurateRows(coords, amounts, pickup, dropoff) ==
    [pickup_latitude : IF coords THEN {400, 407} ELSE {NaN},
     pickup_longitude : IF coords THEN {-740} ELSE {NaN},
     dropoff_latitude : IF coords THEN {408} ELSE {NaN},
     dropoff_longitude : IF coords THEN {-739} ELSE {NaN},
     total_amount : IF amounts THEN {-5, 10} ELSE {NaN},
     trip_distance : IF amounts THEN {150} ELSE {NaN},
     tpep_pickup_datetime :
         IF pickup THEN {"2024-01-15 08:30:00", "2024-02-01 00:10:00", "not a date"}
         ELSE {""},
     tpep_dropoff_datetime :
         IF dropoff THEN {"2024-01-15 09:00:00", ""} ELSE {""},
     pickup_hour : {NaN}, pickup_date : {NaN}, pickup_month : {""},
     pickup_weekday : {""}, trip_duration_min : {NaN}, pickup_day : {NaN}]

\* the input path names no file
MissingInput == [exists |-> FALSE, columns |-> <<>>, rows |-> <<>>]

\* the input is a missing file, or a file of at most MaxRows rows
CurateInput(in) ==
    \/ in = MissingInput
    \/ \E c \in BOOLEAN, a \in BOOLEAN, p \in BOOLEAN, d \in BOOLEAN, k \in 0..MaxRows :
          \E rs \in [1..k -> CurateRows(c, a, p, d)] :
             in = [exists |-> TRUE, columns |-> CurateColumns(c, a, p, d), rows |-> rs]

DefaultThresholds ==
    [max_fare |-> DEFAULT_MAX_FARE, min_distance |-> DEFAULT_MIN_DISTANCE,
     max_distance |-> DEFAULT_MAX_DISTANCE]

\* everything but pc, input, df and thresholds, before the tool has run
Fresh ==
    /\ dirs = {}
    /\ files = NoFiles
    /\ original_rows = 0
    /\ curated_rows = 0
    /\ reduction_pct = 0
    /\ hourly = EmptyFrame
    /\ monthly = EmptyFrame
    /\ fare_stats = EmptyStats
    /\ summary = NoSummary
    /\ outputs = <<>>
    /\ run = 1
    /\ first = NoFrame

(* ------------------- the curation tool: clean_curate.py ---------------- *)
Init ==
    /\ pc = "makedirs"
    /\ CurateInput(input)
    /\ df = NoFrame
    /\ thresholds = DefaultThresholds
    /\ Fresh

Next ==
    \/ MakeDirs
    \/ LoadMissing
    \/ LoadDataset
    \/ NormalizeColumns
    \/ ParseDatetimes
    \/ FilterBounds
    \/ FilterNumeric
    \/ DeriveFeatures
    \/ Reduction
    \/ ComputeMetrics
    \/ WriteTables
    \/ WriteSummary
    \/ Rerun

Spec == Init /\ [][Next]_vars

(* ----------------- the curated file handed to the aggregator ---------- *)
AggRows(amounts, pickup) ==
    [pickup_latitude : {NaN}, pickup_longitude : {NaN},
     dropoff_latitude : {NaN}, dropoff_longitude : {NaN},
     total_amount : IF amounts THEN {10} ELSE {NaN},
     trip_distance :
         IF amounts THEN {4, 5, 99, 100, 250, 5000, 9999, 10000, 10001} ELSE {NaN},
     tpep_pickup_datetime : IF pickup THEN {"2024-01-15 08:30:00"} ELSE {""},
     tpep_dropoff_datetime : {""},
     pickup_hour : {NaN}, pickup_date : {NaN}, pickup_month : {""},
     pickup_weekday : {""}, trip_duration_min : {NaN}, pickup_day : {NaN}]

InitAgg ==
    /\ pc = "makedirs"
    /\ \E a \in BOOLEAN, p \in BOOLEAN, k \in 0..MaxRows :
          \E rs \in [1..k -> AggRows(a, p)] :
             input = [exists |-> TRUE, columns |-> CurateColumns(FALSE, a, p, FALSE),
                      rows |-> rs]
    /\ df = NoFrame
    /\ thresholds = DefaultThresholds
    /\ Fresh

NextAgg ==
    \/ MakeDirs
    \/ LoadDataset
    \/ NormalizeColumns
    \/ ParseDatetimes
    \/ FilterBounds
    \/ FilterNumeric
    \/ DeriveFeatures
    \/ Reduction
    \/ ComputeMetrics
    \/ WriteTables
    \/ WriteSummary
    \/ Aggregate
    \/ AggregateKeyError

SpecAgg == InitAgg /\ [][NextAgg]_vars

(* ---------------------- filter_numeric on its own ---------------------- *)
NumericColumns(amount, distance) ==
    (IF amount THEN <<"total_amount">> ELSE <<>>)
    \o (IF distance THEN <<"trip_distance">> ELSE <<>>)

NumericRows(amount, distance) ==
    {[BlankRow EXCEPT !.total_amount = x, !.trip_distance = y] :
        x \in (IF amount THEN {NaN, 0, 10, 1000, 1001} ELSE {NaN}),
        y \in (IF distance THEN {NaN, 0, 5, 10001} ELSE {NaN})}

\* the dataframe handed in is kept in input
InitNumeric ==
    /\ pc = "filter_numeric"
    /\ \E a \in BOOLEAN, d \in BOOLEAN, k \in 0..MaxStageRows :
          \E rs \in [1..k -> NumericRows(a, d)] :
             /\ df = [columns |-> NumericColumns(a, d), rows |-> rs]
             /\ input = [exists |-> TRUE, columns |-> NumericColumns(a, d), rows |-> rs]
    /\ thresholds \in [max_fare : {10, DEFAULT_MAX_FARE},
                       min_distance : {0, DEFAULT_MIN_DISTANCE},
                       max_distance : {5, DEFAULT_MAX_DISTANCE}]
    /\ Fresh

NextNumeric == FilterNumeric

SpecNumeric == InitNumeric /\ [][NextNumeric]_vars

(* ----------------------- filter_bounds on its own ---------------------- *)
BoundsColumns(plat, plon, dlat, dlon) ==
    (IF plat THEN <<"pickup_latitude">> ELSE <<>>)
    \o (IF plon THEN <<"pickup_longitude">> ELSE <<>>)
    \o (IF dlat THEN <<"dropoff_latitude">> ELSE <<>>)
    \o (IF dlon THEN <<"dropoff_longitude">> ELSE <<>>)

BoundsRows(plat, plon, dlat, dlon) ==
    {[BlankRow EXCEPT !.pickup_latitude = a, !.pickup_longitude = b,
                      !.dropoff_latitude = c, !.dropoff_longitude = d] :
        a \in (IF plat THEN {NaN, 403, 404} ELSE {NaN}),
        b \in (IF plon THEN {-729, -728} ELSE {NaN}),
        c \in (IF dlat THEN {411, 412} ELSE {NaN}),
        d \in (IF dlon THEN {NaN, -746, -745} ELSE {NaN})}

InitBounds ==
    /\ pc = "filter_bounds"
    /\ \E a \in BOOLEAN, b \in BOOLEAN, c \in BOOLEAN, d \in BOOLEAN,
          k \in 0..MaxStageRows :
          \E rs \in [1..k -> BoundsRows(a, b, c, d)] :
             /\ df = [columns |-> BoundsColumns(a, b, c, d), rows |-> rs]
             /\ input = [exists |-> TRUE, columns |-> BoundsColumns(a, b, c, d),
                         rows |-> rs]
    /\ thresholds = DefaultThresholds
    /\ Fresh

NextBounds == FilterBounds

SpecBounds == InitBounds /\ [][NextBounds]_vars

(* --------------------- normalize_columns on its own -------------------- *)
NormNames == {"RatecodeID", "RateCodeID", "VendorID", "total_amount"}

InitNorm ==
    /\ pc = "normalize_columns"
    /\ \E k \in 0..MaxCols :
          \E cols \in [1..k -> NormNames] :
             /\ df = [columns |-> cols, rows |-> <<>>]
             /\ input = [exists |-> TRUE, columns |-> cols, rows |-> <<>>]
    /\ thresholds = DefaultThresholds
    /\ Fresh

NextNorm == NormalizeColumns

SpecNorm == InitNorm /\ [][NextNorm]_vars

(* ------------------------------ claims --------------------------------- *)
\* the cells of the rows that identify a row across the stages
Cells(rows) ==
    [i \in 1..Len(rows) |->
        <<rows[i].pickup_latitude, rows[i].total_amount,
          rows[i].tpep_pickup_datetime, rows[i].tpep_dropoff_datetime>>]

\* the derived features of the rows whose columns the dataframe has
Features(d) ==
    [i \in 1..Len(d.rows) |->
        <<IF HasCol(d, "pickup_hour") THEN d.rows[i].pickup_hour ELSE NaN,
          IF HasCol(d, "pickup_date") THEN d.rows[i].pickup_date ELSE NaN,
          IF HasCol(d, "pickup_month") THEN d.rows[i].pickup_month ELSE "",
          IF HasCol(d, "pickup_weekday") THEN d.rows[i].pickup_weekday ELSE "",
          IF HasCol(d, "trip_duration_min") THEN d.rows[i].trip_duration_min ELSE NaN>>]

\* C3: with both timestamp columns present, derive_features keeps a row if and
\* only if its duration is undefined (a timestamp is null) or lies in [0, 720];
\* a row with a null timestamp is kept, with null derived features.
C3_DurationFilter ==
    [][(/\ pc = "derive_features"
        /\ pc' = "reduction"
        /\ HasCol(df, "tpep_pickup_datetime")
        /\ HasCol(df, "tpep_dropoff_datetime"))
       => LET kept(r) ==
                  \/ r.tpep_pickup_datetime = NaN
                  \/ r.tpep_dropoff_datetime = NaN
                  \/ /\ r.tpep_dropoff_datetime - r.tpep_pickup_datetime >= 0
                     /\ r.tpep_dropoff_datetime - r.tpep_pickup_datetime <= 720
          IN /\ Cells(df'.rows) = Cells(SelectSeq(df.rows, kept))
             /\ \A i \in 1..Len(df'.rows) :
                   df'.rows[i].tpep_pickup_datetime = NaN
                   => df'.rows[i].pickup_hour = NaN]_vars

\* C4: run on its own curated output, the tool removes no further row and
\* derives the same pickup_hour, pickup_date, pickup_month, pickup_weekday
\* and trip_duration_min for every row.
C4_Idempotent ==
    (run = 2 /\ pc \in {"reduction", "compute_metrics", "to_csv", "summary", "done"})
    => /\ Len(df.rows) = Len(first.rows)
       /\ Len(df.rows) = original_rows
       /\ Features(df) = Features(first)

\* a second run that ended with a row that has its features and a row whose
\* pickup time is null
C4_Witness ==
    /\ run = 2
    /\ pc = "done"
    /\ \E i \in 1..Len(df.rows) : df.rows[i].pickup_hour = 8
    /\ \E i \in 1..Len(df.rows) :
          df.rows[i].pickup_hour = NaN /\ df.rows[i].pickup_month = "NaT"

\* C5: the reduction percentage of the summary is 100 * (1 - curated/original),
\* to two decimals, when original_rows > 0, and 0 when original_rows = 0.
C5_ReductionFormula ==
    pc = "done"
    => IF summary.original > 0
       THEN LET diff == summary.reduction * summary.original
                        - 10000 * (summary.original - summary.curated)
            IN 2 * diff <= summary.original /\ -2 * diff <= summary.original
       ELSE summary.reduction = 0

\* C6 as stated: with no row left after the filters, the three tables are all
\* empty, the summary reports 100.00 and has no peak line.
C6_AllEmpty ==
    (pc = "done" /\ curated_rows = 0)
    => /\ files["hourly_trips.csv"] = EmptyFrame
       /\ files["monthly_revenue.csv"] = EmptyFrame
       /\ files["fare_stats.csv"].index = <<>>
       /\ summary.reduction = 10000
       /\ ~summary.peak_line

\* C6 as amended: with no row left after the filters, the hourly and monthly
\* tables are empty, the fare-statistics table is empty only when there is no
\* total_amount column and otherwise holds the rows of describe() with a count
\* of 0, the summary reports 100.00 and has no peak line.
C6_ZeroRows ==
    (pc = "done" /\ curated_rows = 0)
    => /\ files["hourly_trips.csv"] = EmptyFrame
       /\ files["monthly_revenue.csv"] = EmptyFrame
       /\ IF HasCol(df, "total_amount")
          THEN /\ files["fare_stats.csv"].index # <<>>
               /\ files["fare_stats.csv"].index[1] = "count"
               /\ files["fare_stats.csv"].count = 0
          ELSE files["fare_stats.csv"].index = <<>>
       /\ files["curation_summary.txt"].reduction = 10000
       /\ ~files["curation_summary.txt"].peak_line

\* every row of an input with fares and pickup times was filtered out
C6_Witness ==
    /\ pc = "done"
    /\ curated_rows = 0
    /\ original_rows > 0
    /\ HasCol(df, "total_amount")
    /\ HasCol(df, "pickup_hour")

C8_FailsBeforeAnything ==
    pc = "FileNotFoundError"
    => /\ df = NoFrame
       /\ files = NoFiles
       /\ dirs = {}

\* the cells filter_numeric and filter_bounds read
Measures(rows) ==
    [i \in 1..Len(rows) |->
        <<rows[i].total_amount, rows[i].trip_distance,
          rows[i].pickup_latitude, rows[i].pickup_longitude,
          rows[i].dropoff_latitude, rows[i].dropoff_longitude>>]

\* C1: every row filter_numeric keeps has 0 < total_amount <= max_fare when
\* there is a total_amount column and min_distance <= trip_distance <=
\* max_distance when there is a trip_distance column; a row is removed only by
\* the condition of a column that exists.
C1_NumericFilter ==
    pc = "derive_features"
    => LET hasFare == HasCol(input, "total_amount")
           hasDist == HasCol(input, "trip_distance")
           fare(r) == /\ r.total_amount # NaN
                      /\ 0 < r.total_amount
                      /\ r.total_amount <= thresholds.max_fare
           dist(r) == /\ r.trip_distance # NaN
                      /\ thresholds.min_distance <= r.trip_distance
                      /\ r.trip_distance <= thresholds.max_distance
           keep(r) == (hasFare => fare(r)) /\ (hasDist => dist(r))
       IN /\ \A i \in 1..Len(df.rows) : keep(df.rows[i])
          /\ Measures(df.rows) = Measures(SelectSeq(input.rows, keep))

\* of a dataframe with fares and no distances, a row was removed and a row kept
C1_Witness ==
    /\ pc = "derive_features"
    /\ HasCol(input, "total_amount")
    /\ ~HasCol(input, "trip_distance")
    /\ Len(df.rows) = 1
    /\ Len(input.rows) = 2
    /\ df.rows[1].total_amount = thresholds.max_fare

\* C2 as stated: every row filter_bounds keeps has each coordinate column that
\* is present inside the bounding box, both ends included.
C2_EachPresentColumn ==
    pc = "filter_numeric"
    => \A i \in 1..Len(df.rows) :
          /\ HasCol(df, "pickup_latitude")
             => df.rows[i].pickup_latitude \in lat_min..lat_max
          /\ HasCol(df, "pickup_longitude")
             => df.rows[i].pickup_longitude \in lon_min..lon_max
          /\ HasCol(df, "dropoff_latitude")
             => df.rows[i].dropoff_latitude \in lat_min..lat_max
          /\ HasCol(df, "dropoff_longitude")
             => df.rows[i].dropoff_longitude \in lon_min..lon_max

\* C2 as amended: every row filter_bounds keeps has the coordinates of each
\* pair whose latitude and longitude columns are both present inside the
\* bounding box, both ends included; a row is removed only on the basis of
\* such a pair, and a latitude or longitude column without its partner is
\* not checked.
C2_PairsInBounds ==
    pc = "filter_numeric"
    => LET pickup == HasCol(input, "pickup_latitude") /\ HasCol(input, "pickup_longitude")
           dropoff == HasCol(input, "dropoff_latitude") /\ HasCol(input, "dropoff_longitude")
           keep(r) ==
               /\ pickup => /\ r.pickup_latitude \in lat_min..lat_max
                            /\ r.pickup_longitude \in lon_min..lon_max
               /\ dropoff => /\ r.dropoff_latitude \in lat_min..lat_max
                             /\ r.dropoff_longitude \in lon_min..lon_max
       IN /\ \A i \in 1..Len(df.rows) : keep(df.rows[i])
          /\ Measures(df.rows) = Measures(SelectSeq(input.rows, keep))

\* with the pickup pair alone, a row on the edge of the box was kept and a row
\* outside it removed
C2_Witness ==
    /\ pc = "filter_numeric"
    /\ Range(input.columns) = {"pickup_latitude", "pickup_longitude"}
    /\ Len(input.rows) = 2
    /\ Len(df.rows) = 1
    /\ df.rows[1].pickup_latitude = lat_min
    /\ df.rows[1].pickup_longitude = lon_max

\* C9: the columns normalize_columns returns are pairwise distinct, each is the
\* first occurrence of its name, and normalizing them again changes nothing.
C9_NormalizedSchema ==
    pc = "parse_datetimes"
    => /\ \A i, j \in 1..Len(df.columns) : df.columns[i] = df.columns[j] => i = j
       /\ Range(df.columns) =
              {IF c = "RatecodeID" THEN "RateCodeID" ELSE c : c \in Range(input.columns)}
       /\ normalize_columns(df).columns = df.columns

\* C10: every row that passes the distance filter of the curation tool falls
\* in exactly one of the seven distance buckets of the aggregator, so the
\* total_trips of agg_distance_bucket add up to the number of curated rows.
C10_BucketsCoverCurated ==
    (pc = "aggregated" /\ "agg_distance_bucket" \in DOMAIN outputs)
    => /\ \A i \in 1..Len(df.rows) :
             \E k \in 1..Len(labels) :
                bins[k] <= df.rows[i].trip_distance /\ df.rows[i].trip_distance < bins[k + 1]
       /\ SumSeq([k \in 1..Len(labels) |->
                     outputs["agg_distance_bucket"][k].total_trips]) = curated_rows

====
